---- MODULE Spec2Model ----
(***************************************************************************)
(* Patient queue and status-transition engine of the Eye-Hospital backend  *)
(* (backend/routers/patients.py): registration with daily token numbers,   *)
(* OPD allocation, referral, status updates and visit completion, acting   *)
(* on the Patient, Queue and PatientFlow tables.                           *)
(*                                                                         *)
(* Spec     : every handler runs as one step (serial execution).           *)
(* SpecOnePatient : the serial handlers, followed longer for one patient.  *)
(* SpecConc : register, allocate and refer are split at their database     *)
(*            reads and commits, so that requests served by different      *)
(*            sessions interleave statement by statement.                  *)
(***************************************************************************)
EXTENDS Integers, Sequences, FiniteSets, TLC

\* ------------------------------------------------------------------ bounds
MaxPatients == 2
MaxClock == 5
MaxCalls == 4
MaxDay == 2
MaxInFlight == 2
MaxCommits == 4

\* --------------------------------------------------------------- constants
\* Width of the token suffix: f"{new_number:04d}".
TokenWidth == 4

None == "None"
NoTime == 0

\* The departments (OPDType) and the statuses (PatientStatus) the router uses.
OPDType == {"eye", "ent"}
PatientStatus == {"PENDING", "DILATED", "REFERRED", "COMPLETED"}

PatientIds == 1..MaxPatients
Slots == 1..MaxInFlight

VARIABLES
    patients,   \* Patient table: patients[id] is the row with primary key id
    queue,      \* Queue table: rows in insertion order
    flow,       \* PatientFlow table: rows in insertion order
    today,      \* the calendar day datetime.now() reports
    clock,      \* logical time: advances with every committed call and day change
    response,   \* what the last finished call returned to its caller
    pushes,     \* the broadcasts the last finished call requested
    assigned,   \* per department, every position= handed to Queue(...), in order
    req         \* SpecConc: the requests in flight, one per session

vars == <<patients, queue, flow, today, clock, response, pushes, assigned, req>>

\* ----------------------------------------------------------------- helpers
SeqToSet(s) == {s[i] : i \in DOMAIN s}

RECURSIVE SetMax(_)
SetMax(S) ==
    IF S = {} THEN 0
    ELSE LET x == CHOOSE y \in S : TRUE
             m == SetMax(S \ {x})
         IN IF x > m THEN x ELSE m

\* f"opd_{opd_type.value}"
Room(opd) == "opd_" \o opd

\* f"{new_number:04d}": the decimal digits of n, left-padded with zeros to
\* TokenWidth digits (longer numbers keep all their digits).
RECURSIVE Digits(_)
Digits(n) == IF n < 10 THEN <<n>> ELSE Append(Digits(n \div 10), n % 10)

RECURSIVE ZeroPad(_)
ZeroPad(ds) == IF Len(ds) >= TokenWidth THEN ds ELSE ZeroPad(<<0>> \o ds)

Format04d(n) == ZeroPad(Digits(n))

\* int(token_number.split('-')[-1])
RECURSIVE ParseInt(_)
ParseInt(ds) ==
    IF ds = <<>> THEN 0
    ELSE 10 * ParseInt(SubSeq(ds, 1, Len(ds) - 1)) + ds[Len(ds)]

\* f"{today}-{new_number:04d}"
Token(day, n) == [date |-> day, suffix |-> Format04d(n)]

\* Mutant: the date filter is missing from the query.
LastTokenId_AnyDay(ps, day) == SetMax(DOMAIN ps)

\* Patient.token_number.like(f"{today}%") ... order_by(Patient.id.desc()).first()
LastTokenId(ps, day) == SetMax({i \in DOMAIN ps : ps[i].token_number.date = day})

generate_token_number(ps, day) ==
    LET last == LastTokenId(ps, day)
    IN IF last # 0
       THEN Token(day, ParseInt(ps[last].token_number.suffix) + 1)
       ELSE Token(day, 1)

\* Patient(token_number=..., registration_time=datetime.now()); the other
\* columns take their defaults.
NewPatient(token, t) ==
    [token_number      |-> token,
     registration_time |-> t,
     current_status    |-> "PENDING",
     allocated_opd     |-> None,
     current_room      |-> None,
     is_dilated        |-> FALSE,
     dilation_time     |-> NoTime,
     referred_from     |-> None,
     referred_to       |-> None,
     completed_at      |-> NoTime]

FlowEntry(pid, from, to, st, notes) ==
    [patient_id |-> pid, from_room |-> from, to_room |-> to,
     status |-> st, notes |-> notes]

\* Mutant: the new row takes the place of the latest one.
LogFlow_Overwrite(f, entry) ==
    IF f = <<>> THEN <<entry>> ELSE [f EXCEPT ![Len(f)] = entry]

\* db.add(flow_entry); db.commit()
LogFlow(f, entry) == Append(f, entry)

\* Mutant: the department filter is missing from the query.
MaxPosition_AllDepartments(q, opd) == SetMax({q[i].position : i \in DOMAIN q})

\* Mutant: the position of the department's first row instead of the maximum.
MaxPosition_First(q, opd) ==
    LET rows == {j \in DOMAIN q : q[j].opd_type = opd}
    IN IF rows = {} THEN 0
       ELSE q[CHOOSE j \in rows : \A k \in rows : j <= k].position

\* db.query(func.max(Queue.position)).filter(Queue.opd_type == opd).scalar() or 0
MaxPosition(q, opd) ==
    SetMax({q[i].position : i \in {j \in DOMAIN q : q[j].opd_type = opd}})

\* Primary key of a newly inserted Queue row.
NextQueueId(q) == SetMax({q[i].id : i \in DOMAIN q}) + 1

\* Queue(opd_type=..., patient_id=..., position=max_position + 1, status=...)
NewQueueEntry(q, opd, pid, max_position, st) ==
    [id |-> NextQueueId(q), opd_type |-> opd, patient_id |-> pid,
     position |-> max_position + 1, status |-> st, updated_at |-> NoTime]

\* The rows db.query(Queue).filter(patient_id == pid, opd_type == opd) matches.
Matching(q, pid, opd) ==
    {q[i].id : i \in {j \in DOMAIN q : q[j].patient_id = pid /\ q[j].opd_type = opd}}

\* .first() of that query: one of the matching rows (the query has no
\* ORDER BY), or 0 for Python's None.
First(q, pid, opd) ==
    IF opd = None \/ Matching(q, pid, opd) = {} THEN {0} ELSE Matching(q, pid, opd)

\* queue_entry.status = st (and, when stamped, updated_at = t) on row id.
\* Mutant: the row is stamped but keeps its status.
SetEntry_StampOnly(q, id, st, t) ==
    [i \in DOMAIN q |->
        IF q[i].id = id
        THEN [q[i] EXCEPT !.updated_at = IF t = NoTime THEN @ ELSE t]
        ELSE q[i]]

SetEntry(q, id, st, t) ==
    [i \in DOMAIN q |->
        IF q[i].id = id
        THEN [q[i] EXCEPT !.status = st,
                          !.updated_at = IF t = NoTime THEN @ ELSE t]
        ELSE q[i]]

Reply(op, code, pid, opd, pos) ==
    [op |-> op, code |-> code, patient_id |-> pid, opd |-> opd,
     queue_position |-> pos]

QueuePush(opd) == [kind |-> "queue", opd |-> opd, patient_id |-> 0, status |-> None]
StatusPush(pid, st) == [kind |-> "patient_status", opd |-> None, patient_id |-> pid, status |-> st]
DisplayPush == [kind |-> "display", opd |-> None, patient_id |-> 0, status |-> None]

\* A session with no request in it.
IdleReq ==
    [pc |-> "idle", patient_id |-> 0, opd |-> None, token |-> Token(0, 0),
     max_position |-> 0, loaded |-> NewPatient(Token(0, 0), NoTime),
     from_entry |-> 0, to_entry |-> 0, dirty |-> {}]

Init ==
    /\ patients = <<>>
    /\ queue = <<>>
    /\ flow = <<>>
    /\ today = 1
    /\ clock = 0
    /\ response = Reply("none", 0, 0, None, 0)
    /\ pushes = {}
    /\ assigned = [d \in OPDType |-> <<>>]
    /\ req = [s \in Slots |-> IdleReq]

\* Mutant: the lookup comes after the handler has queued its broadcasts.
NotFound_AfterBroadcast(op, pid) ==
    /\ pid \notin DOMAIN patients
    /\ response' = Reply(op, 404, pid, None, 0)
    /\ pushes' = {DisplayPush}
    /\ UNCHANGED <<patients, queue, flow, today, clock, assigned, req>>

\* raise HTTPException(status_code=404, detail="Patient not found")
NotFound(op, pid) ==
    /\ pid \notin DOMAIN patients
    /\ response' = Reply(op, 404, pid, None, 0)
    /\ pushes' = {}
    /\ UNCHANGED <<patients, queue, flow, today, clock, assigned, req>>

\* ------------------------------------------------------------- serial steps
\* The calendar day changes between two calls.
AdvanceDay ==
    /\ today < MaxDay
    /\ clock < MaxClock
    /\ today' = today + 1
    /\ clock' = clock + 1
    /\ UNCHANGED <<patients, queue, flow, response, pushes, assigned, req>>

register_patient ==
    /\ Len(patients) < MaxPatients
    /\ clock < MaxClock
    /\ clock' = clock + 1
    /\ patients' = Append(patients,
                          NewPatient(generate_token_number(patients, today), clock'))
    /\ flow' = LogFlow(flow, FlowEntry(Len(patients'), None, "registration", "PENDING", None))
    /\ response' = Reply("register", 200, Len(patients'), None, 0)
    /\ pushes' = {}
    /\ UNCHANGED <<queue, today, assigned, req>>

\* -- allocate_opd
AllocatePatient(p, opd) ==
    [p EXCEPT !.allocated_opd = opd, !.current_room = Room(opd)]

AllocateQueue(q, pid, opd, max_position) ==
    Append(q, NewQueueEntry(q, opd, pid, max_position, "PENDING"))

AllocateFlow(pid, opd) == FlowEntry(pid, "registration", Room(opd), "PENDING", None)

AllocatePushes(opd) == {QueuePush(opd), DisplayPush}

allocate_opd(pid, opd) ==
    \/ NotFound("allocate", pid)
    \/ /\ pid \in DOMAIN patients
       /\ clock < MaxClock
       /\ clock' = clock + 1
       /\ LET max_position == MaxPosition(queue, opd)
          IN /\ patients' = [patients EXCEPT ![pid] = AllocatePatient(@, opd)]
             /\ queue' = AllocateQueue(queue, pid, opd, max_position)
             /\ flow' = LogFlow(flow, AllocateFlow(pid, opd))
             /\ response' = Reply("allocate", 200, pid, opd, max_position + 1)
             /\ pushes' = AllocatePushes(opd)
             /\ assigned' = [assigned EXCEPT ![opd] = Append(@, max_position + 1)]
       /\ UNCHANGED <<today, req>>

\* -- update_patient_status
\* Mutant: COMPLETED does not stamp completed_at.
StatusPatient_NoCompletedAt(p, st, t) ==
    LET q == [p EXCEPT !.current_status = st]
    IN IF st = "DILATED"
       THEN [q EXCEPT !.is_dilated = TRUE, !.dilation_time = t]
       ELSE q

StatusPatient(p, st, t) ==
    LET q == [p EXCEPT !.current_status = st]
    IN IF st = "DILATED"
       THEN [q EXCEPT !.is_dilated = TRUE, !.dilation_time = t]
       ELSE IF st = "COMPLETED"
       THEN [q EXCEPT !.completed_at = t]
       ELSE q

\* db.query(Queue).filter(patient_id == pid, opd_type == allocated_opd).delete()
DeleteMatching(q, pid, opd) ==
    SelectSeq(q, LAMBDA e : ~(e.patient_id = pid /\ e.opd_type = opd))

\* Mutant: COMPLETED removes the patient's rows in every department.
StatusQueueRemove_AllDepartments(q, pid, opd, st) ==
    IF st = "COMPLETED" THEN SelectSeq(q, LAMBDA e : e.patient_id # pid) ELSE q

StatusQueueRemove(q, pid, opd, st) ==
    IF st = "COMPLETED" THEN DeleteMatching(q, pid, opd) ELSE q

StatusPushes(pid, opd, st) ==
    (IF opd # None THEN {QueuePush(opd)} ELSE {}) \cup {StatusPush(pid, st), DisplayPush}

update_patient_status(pid, st) ==
    \/ NotFound("status", pid)
    \/ /\ pid \in DOMAIN patients
       /\ clock < MaxClock
       /\ clock' = clock + 1
       /\ LET p == patients[pid]
              q1 == StatusQueueRemove(queue, pid, p.allocated_opd, st)
          IN /\ patients' = [patients EXCEPT ![pid] = StatusPatient(p, st, clock')]
             /\ \E queue_entry \in First(q1, pid, p.allocated_opd) :
                    queue' = IF queue_entry # 0
                             THEN SetEntry(q1, queue_entry, st, clock')
                             ELSE q1
             /\ flow' = LogFlow(flow, FlowEntry(pid, p.current_room, None, st, None))
             /\ response' = Reply("status", 200, pid, None, 0)
             /\ pushes' = StatusPushes(pid, p.allocated_opd, st)
       /\ UNCHANGED <<today, assigned, req>>

\* -- refer_patient
ReferPatient(p, to_opd) ==
    [p EXCEPT !.referred_from = p.allocated_opd,
              !.referred_to = to_opd,
              !.current_status = "REFERRED"]

\* Mutant: a destination entry that exists is left as it was.
ReferQueue_ExistingUntouched(q, pid, to_opd, from_entry, to_entry, max_position_to) ==
    LET q1 == IF from_entry # 0 THEN SetEntry(q, from_entry, "REFERRED", NoTime) ELSE q
    IN IF to_entry = 0
       THEN Append(q1, NewQueueEntry(q1, to_opd, pid, max_position_to, "REFERRED"))
       ELSE q1

\* Mutant: the origin entry is left as it was.
ReferQueue_OriginUnmarked(q, pid, to_opd, from_entry, to_entry, max_position_to) ==
    IF to_entry = 0
    THEN Append(q, NewQueueEntry(q, to_opd, pid, max_position_to, "REFERRED"))
    ELSE SetEntry(q, to_entry, "REFERRED", NoTime)

\* The origin entry (from_entry) is marked; the destination entry (to_entry) is
\* created at max_position_to + 1 when absent and marked otherwise.
ReferQueue(q, pid, to_opd, from_entry, to_entry, max_position_to) ==
    LET q1 == IF from_entry # 0 THEN SetEntry(q, from_entry, "REFERRED", NoTime) ELSE q
    IN IF to_entry = 0
       THEN Append(q1, NewQueueEntry(q1, to_opd, pid, max_position_to, "REFERRED"))
       ELSE SetEntry(q1, to_entry, "REFERRED", NoTime)

ReferAssigned(a, to_opd, to_entry, max_position_to) ==
    IF to_entry = 0 THEN [a EXCEPT ![to_opd] = Append(@, max_position_to + 1)] ELSE a

ReferFlow(pid, from_opd, to_opd) ==
    FlowEntry(pid,
              IF from_opd # None THEN Room(from_opd) ELSE None,
              Room(to_opd),
              "REFERRED",
              "Referred from "
                  \o (IF from_opd # None THEN from_opd ELSE "registration")
                  \o " to " \o to_opd)

ReferPushes(pid, from_opd, to_opd) ==
    (IF from_opd # None THEN {QueuePush(from_opd)} ELSE {})
        \cup {QueuePush(to_opd), StatusPush(pid, "REFERRED"), DisplayPush}

refer_patient(pid, to_opd) ==
    \/ NotFound("refer", pid)
    \/ /\ pid \in DOMAIN patients
       /\ clock < MaxClock
       /\ clock' = clock + 1
       /\ LET p == patients[pid]
              from_opd == p.allocated_opd
          IN /\ patients' = [patients EXCEPT ![pid] = ReferPatient(p, to_opd)]
             /\ \E from_entry \in First(queue, pid, from_opd) :
                \E to_entry \in First(queue, pid, to_opd) :
                    /\ queue' = ReferQueue(queue, pid, to_opd, from_entry, to_entry,
                                           MaxPosition(queue, to_opd))
                    /\ assigned' = ReferAssigned(assigned, to_opd, to_entry,
                                                 MaxPosition(queue, to_opd))
             /\ flow' = LogFlow(flow, ReferFlow(pid, from_opd, to_opd))
             /\ response' = Reply("refer", 200, pid, to_opd, 0)
             /\ pushes' = ReferPushes(pid, from_opd, to_opd)
       /\ UNCHANGED <<today, req>>

\* -- end_patient_visit
EndVisitPatient(p, t) ==
    [p EXCEPT !.current_status = "COMPLETED",
              !.completed_at = t,
              !.current_room = None,
              !.allocated_opd = None,
              !.referred_from = None,
              !.referred_to = None]

\* Mutant: only the first of the patient's rows is deleted.
EndVisitQueue_First(q, pid) ==
    LET rows == {j \in DOMAIN q : q[j].patient_id = pid}
    IN IF rows = {} THEN q
       ELSE LET f == CHOOSE j \in rows : \A k \in rows : j <= k
            IN SubSeq(q, 1, f - 1) \o SubSeq(q, f + 1, Len(q))

\* for queue_entry in db.query(Queue).filter(patient_id == pid).all(): db.delete(...)
EndVisitQueue(q, pid) == SelectSeq(q, LAMBDA e : e.patient_id # pid)

EndVisitPushes(pid, opd_to_update) ==
    (IF opd_to_update # None THEN {QueuePush(opd_to_update)} ELSE {})
        \cup {StatusPush(pid, "COMPLETED"), DisplayPush}

end_patient_visit(pid) ==
    \/ NotFound("endvisit", pid)
    \/ /\ pid \in DOMAIN patients
       /\ clock < MaxClock
       /\ clock' = clock + 1
       /\ LET p == patients[pid]
          IN /\ patients' = [patients EXCEPT ![pid] = EndVisitPatient(p, clock')]
             /\ queue' = EndVisitQueue(queue, pid)
             /\ flow' = LogFlow(flow, FlowEntry(pid, p.current_room, "completed",
                                               "COMPLETED", "Patient visit completed"))
             /\ response' = Reply("endvisit", 200, pid, None, 0)
             /\ pushes' = EndVisitPushes(pid, p.allocated_opd)
       /\ UNCHANGED <<today, assigned, req>>

\* Up to MaxCalls calls, by any of MaxPatients patients.
Next ==
    \/ clock < MaxCalls /\ AdvanceDay
    \/ clock < MaxCalls /\ register_patient
    \/ \E pid \in PatientIds, opd \in OPDType :
          clock < MaxCalls /\ allocate_opd(pid, opd)
    \/ \E pid \in PatientIds, st \in PatientStatus :
          clock < MaxCalls /\ update_patient_status(pid, st)
    \/ \E pid \in PatientIds, to_opd \in OPDType :
          clock < MaxCalls /\ refer_patient(pid, to_opd)
    \/ \E pid \in PatientIds :
          clock < MaxCalls /\ end_patient_visit(pid)

Spec == Init /\ [][Next]_vars

\* The same handlers followed for MaxClock calls, with one patient registered.
NextOnePatient ==
    \/ AdvanceDay
    \/ patients = <<>> /\ register_patient
    \/ \E pid \in PatientIds, opd \in OPDType : allocate_opd(pid, opd)
    \/ \E pid \in PatientIds, st \in PatientStatus : update_patient_status(pid, st)
    \/ \E pid \in PatientIds, to_opd \in OPDType : refer_patient(pid, to_opd)
    \/ \E pid \in PatientIds : end_patient_visit(pid)

SpecOnePatient == Init /\ [][NextOnePatient]_vars

\* -- list_referred_patients
\* The values a caller passes as from_opd / to_opd: absent, a department, or a
\* string that names no department.
OpdQueries == OPDType \cup {None, "lab"}

\* Mutant: newest first, as get_patients orders.
OrderByRegistration_Desc(ps, ids) ==
    LET RECURSIVE Sorted(_)
        Sorted(S) ==
            IF S = {} THEN <<>>
            ELSE LET m == CHOOSE i \in S : \A j \in S :
                              ps[i].registration_time >= ps[j].registration_time
                 IN <<m>> \o Sorted(S \ {m})
    IN Sorted(ids)

\* query.order_by(Patient.registration_time.asc()).all()
OrderByRegistration(ps, ids) ==
    LET RECURSIVE Sorted(_)
        Sorted(S) ==
            IF S = {} THEN <<>>
            ELSE LET m == CHOOSE i \in S : \A j \in S :
                              ps[i].registration_time <= ps[j].registration_time
                 IN <<m>> \o Sorted(S \ {m})
    IN Sorted(ids)

\* ReferredPatientResponse(id=p.id, ..., from_opd=p.referred_from, to_opd=p.referred_to)
ReferredPatientResponse(ps, i) ==
    [id |-> i, token_number |-> ps[i].token_number,
     registration_time |-> ps[i].registration_time,
     from_opd |-> ps[i].referred_from, to_opd |-> ps[i].referred_to]

list_referred_patients(ps, from_opd, to_opd) ==
    LET q0 == {i \in DOMAIN ps : ps[i].current_status = "REFERRED"}
        q1 == IF from_opd # None /\ from_opd \in OPDType
              THEN {i \in q0 : ps[i].referred_from = from_opd} ELSE q0
        q2 == IF to_opd # None /\ to_opd \in OPDType
              THEN {i \in q1 : ps[i].referred_to = to_opd} ELSE q1
        rows == OrderByRegistration(ps, q2)
    IN [k \in DOMAIN rows |-> ReferredPatientResponse(ps, rows[k])]

\* ------------------------------------------------------- interleaved steps
\* Each request runs in its own Session. A query reads the committed tables;
\* what the handler writes reaches them at db.commit(), which writes only the
\* columns the handler changed on the rows it loaded.
InFlight == Cardinality({s \in Slots : req[s].pc # "idle"})

\* Sessions are interchangeable: a new request takes the first free one.
Free(s) == req[s].pc = "idle" /\ \A t \in 1..(s - 1) : req[t].pc # "idle"

Registering ==
    Cardinality({s \in Slots : req[s].pc = "register_commit"})

\* UPDATE patients SET <changed columns>: a column is written when the value
\* the handler left on the loaded object differs from the value it loaded.
CommitPatient(row, loaded, intended) ==
    [c \in DOMAIN row |-> IF intended[c] # loaded[c] THEN intended[c] ELSE row[c]]

\* token_number = generate_token_number(db)
register_read(s) ==
    /\ Free(s)
    /\ Len(patients) + Registering < MaxPatients
    /\ clock + InFlight < MaxCommits
    /\ req' = [req EXCEPT ![s] = [IdleReq EXCEPT !.pc = "register_commit",
                                   !.token = generate_token_number(patients, today)]]
    /\ UNCHANGED <<patients, queue, flow, today, clock, response, pushes, assigned>>

\* db.add(db_patient); db.commit(); db.refresh(db_patient)
register_commit(s) ==
    /\ req[s].pc = "register_commit"
    /\ clock' = clock + 1
    /\ patients' = Append(patients, NewPatient(req[s].token, clock'))
    /\ req' = [req EXCEPT ![s].pc = "register_log", ![s].patient_id = Len(patients')]
    /\ UNCHANGED <<queue, flow, today, response, pushes, assigned>>

\* db.add(flow_entry); db.commit(); return db_patient
register_log(s) ==
    /\ req[s].pc = "register_log"
    /\ flow' = LogFlow(flow, FlowEntry(req[s].patient_id, None, "registration", "PENDING", None))
    /\ response' = Reply("register", 200, req[s].patient_id, None, 0)
    /\ pushes' = {}
    /\ req' = [req EXCEPT ![s] = IdleReq]
    /\ UNCHANGED <<patients, queue, today, clock, assigned>>

\* patient = db.query(Patient)...first(); max_position = db.query(func.max(...))
allocate_read(s, pid, opd) ==
    /\ Free(s)
    /\ \/ NotFound("allocate", pid)
       \/ /\ pid \in DOMAIN patients
          /\ clock + InFlight < MaxCommits
          /\ req' = [req EXCEPT ![s] = [IdleReq EXCEPT !.pc = "allocate_commit",
                                         !.patient_id = pid,
                                         !.opd = opd,
                                         !.loaded = patients[pid],
                                         !.max_position = MaxPosition(queue, opd)]]
          /\ UNCHANGED <<patients, queue, flow, today, clock, response, pushes, assigned>>

\* db.add(queue_entry); db.commit()
allocate_commit(s) ==
    /\ req[s].pc = "allocate_commit"
    /\ clock' = clock + 1
    /\ LET r == req[s]
       IN /\ patients' = [patients EXCEPT ![r.patient_id] =
                            CommitPatient(@, r.loaded, AllocatePatient(r.loaded, r.opd))]
          /\ queue' = AllocateQueue(queue, r.patient_id, r.opd, r.max_position)
          /\ assigned' = [assigned EXCEPT ![r.opd] = Append(@, r.max_position + 1)]
    /\ req' = [req EXCEPT ![s].pc = "allocate_log"]
    /\ UNCHANGED <<flow, today, response, pushes>>

\* db.add(flow_entry); db.commit(); the broadcasts; return
allocate_log(s) ==
    /\ req[s].pc = "allocate_log"
    /\ flow' = LogFlow(flow, AllocateFlow(req[s].patient_id, req[s].opd))
    /\ response' = Reply("allocate", 200, req[s].patient_id, req[s].opd,
                         req[s].max_position + 1)
    /\ pushes' = AllocatePushes(req[s].opd)
    /\ req' = [req EXCEPT ![s] = IdleReq]
    /\ UNCHANGED <<patients, queue, today, clock, assigned>>

EntryStatus(q, id) ==
    LET i == CHOOSE j \in DOMAIN q : q[j].id = id IN q[i].status

\* The queries of refer_patient: the patient, the origin entry, the
\* destination entry and, when that is absent, the destination's max position.
refer_read(s, pid, to_opd) ==
    /\ Free(s)
    /\ \/ NotFound("refer", pid)
       \/ /\ pid \in DOMAIN patients
          /\ clock + InFlight < MaxCommits
          /\ \E from_entry \in First(queue, pid, patients[pid].allocated_opd) :
             \E to_entry \in First(queue, pid, to_opd) :
                req' = [req EXCEPT ![s] =
                    [IdleReq EXCEPT !.pc = "refer_commit",
                                    !.patient_id = pid,
                                    !.opd = to_opd,
                                    !.loaded = patients[pid],
                                    !.from_entry = from_entry,
                                    !.to_entry = to_entry,
                                    !.dirty = {e \in {from_entry, to_entry} \ {0} :
                                                  EntryStatus(queue, e) # "REFERRED"},
                                    !.max_position = MaxPosition(queue, to_opd)]]
          /\ UNCHANGED <<patients, queue, flow, today, clock, response, pushes, assigned>>

\* UPDATE queue SET status = 'REFERRED' WHERE id = <loaded row>, for the loaded
\* rows whose status the handler changed.
ReferCommitQueue(q, pid, to_opd, dirty, to_entry, max_position_to) ==
    LET q1 == [i \in DOMAIN q |->
                  IF q[i].id \in dirty THEN [q[i] EXCEPT !.status = "REFERRED"] ELSE q[i]]
    IN IF to_entry = 0
       THEN Append(q1, NewQueueEntry(q1, to_opd, pid, max_position_to, "REFERRED"))
       ELSE q1

\* db.add(flow_entry); db.commit(); the broadcasts; return. The commit fails,
\* and nothing is written, when a row it updates is gone (StaleDataError).
refer_commit(s) ==
    /\ req[s].pc = "refer_commit"
    /\ LET r == req[s]
           ids == {queue[i].id : i \in DOMAIN queue}
       IN \/ /\ r.dirty \subseteq ids
             /\ clock' = clock + 1
             /\ patients' = [patients EXCEPT ![r.patient_id] =
                               CommitPatient(@, r.loaded, ReferPatient(r.loaded, r.opd))]
             /\ queue' = ReferCommitQueue(queue, r.patient_id, r.opd, r.dirty,
                                          r.to_entry, r.max_position)
             /\ assigned' = ReferAssigned(assigned, r.opd, r.to_entry, r.max_position)
             /\ flow' = LogFlow(flow, ReferFlow(r.patient_id, r.loaded.allocated_opd, r.opd))
             /\ response' = Reply("refer", 200, r.patient_id, r.opd, 0)
             /\ pushes' = ReferPushes(r.patient_id, r.loaded.allocated_opd, r.opd)
          \/ /\ ~(r.dirty \subseteq ids)
             /\ response' = Reply("refer", 500, r.patient_id, r.opd, 0)
             /\ pushes' = {}
             /\ UNCHANGED <<patients, queue, flow, clock, assigned>>
    /\ req' = [req EXCEPT ![s] = IdleReq]
    /\ UNCHANGED today

\* update_patient_status and end_patient_visit commit once; they are taken
\* here as single steps between the steps of the other requests.
NextConc ==
    \/ clock < MaxCommits /\ AdvanceDay
    \/ \E s \in Slots : register_read(s)
    \/ \E s \in Slots : register_commit(s)
    \/ \E s \in Slots : register_log(s)
    \/ \E s \in Slots, pid \in PatientIds, opd \in OPDType : allocate_read(s, pid, opd)
    \/ \E s \in Slots : allocate_commit(s)
    \/ \E s \in Slots : allocate_log(s)
    \/ \E s \in Slots, pid \in PatientIds, to_opd \in OPDType : refer_read(s, pid, to_opd)
    \/ \E s \in Slots : refer_commit(s)
    \/ \E pid \in PatientIds, st \in PatientStatus :
          clock + InFlight < MaxCommits /\ update_patient_status(pid, st)
    \/ \E pid \in PatientIds :
          clock + InFlight < MaxCommits /\ end_patient_visit(pid)

SpecConc == Init /\ [][NextConc]_vars

\* ================================================================== claims
\* A step in which handler op returned its success payload.
Called(op) ==
    /\ response'.op = op
    /\ response'.code = 200
    /\ clock' = clock + 1
    /\ today' = today

Entries(q, pid, opd) == {e \in SeqToSet(q) : e.patient_id = pid /\ e.opd_type = opd}

Cleared(p) ==
    /\ p.allocated_opd = None
    /\ p.current_room = None
    /\ p.referred_from = None
    /\ p.referred_to = None

\* C1 (as stated): for every patient, completed_at is set iff current_status is
\* COMPLETED, and that holds iff allocated_opd, current_room, referred_from and
\* referred_to are all cleared.
C1_CompletedEquivalence ==
    \A pid \in DOMAIN patients :
        LET p == patients[pid]
        IN /\ (p.completed_at # NoTime) <=> (p.current_status = "COMPLETED")
           /\ (p.current_status = "COMPLETED") <=> Cleared(p)

\* C1 (amended): every patient whose current_status is COMPLETED has
\* completed_at set.
C1_CompletedHasTimestamp ==
    \A pid \in DOMAIN patients :
        patients[pid].current_status = "COMPLETED" => patients[pid].completed_at # NoTime

\* A patient completed through the status update, still allocated.
C1_Witness ==
    \E pid \in DOMAIN patients :
        /\ patients[pid].current_status = "COMPLETED"
        /\ patients[pid].completed_at # NoTime
        /\ patients[pid].allocated_opd # None
        /\ response.op = "status"

\* C2: after a successful endVisit(p) no Queue row of p is left in any
\* department, p's allocated_opd, current_room, referred_from and referred_to
\* are none, and the call has added no Queue row.
C2_EndVisitReconciles ==
    [][Called("endvisit") =>
        LET pid == response'.patient_id
        IN /\ \A e \in SeqToSet(queue') : e.patient_id # pid
           /\ Cleared(patients'[pid])
           /\ SeqToSet(queue') \subseteq SeqToSet(queue)]_vars

\* endVisit has just finished for a patient who had been referred out of an
\* allocated department (entries in two departments).
C2_Witness ==
    /\ response.op = "endvisit"
    /\ response.code = 200
    /\ \E i \in DOMAIN flow :
        /\ flow[i].patient_id = response.patient_id
        /\ flow[i].status = "REFERRED"
        /\ flow[i].from_room # None
        /\ flow[i].to_room # None
        /\ flow[i].from_room # flow[i].to_room
    /\ \A e \in SeqToSet(queue) : e.patient_id # response.patient_id

ReferredInBoth(q, ps, pid, from, to) ==
    /\ \E e \in Entries(q, pid, from) : e.status = "REFERRED"
    /\ \E e \in Entries(q, pid, to) : e.status = "REFERRED"
    /\ ps[pid].referred_from = from
    /\ ps[pid].referred_to = to
    /\ ps[pid].current_status = "REFERRED"

C4_AssignedStrictlyIncreasing ==
    \A d \in OPDType :
        \A i, j \in DOMAIN assigned[d] : i < j => assigned[d][i] < assigned[d][j]

\* C4 (amended): among the entries a department holds at any one time the
\* positions are strictly increasing in creation order (hence pairwise
\* distinct); a position freed by a deletion can be handed out again.
C4_PresentStrictlyIncreasing ==
    \A i, j \in DOMAIN queue :
        (i < j /\ queue[i].opd_type = queue[j].opd_type)
            => queue[i].position < queue[j].position

\* A department holds the entry of an allocated patient and, behind it, the
\* entry refer created for another patient.
C4_Witness ==
    \E i, j \in DOMAIN queue :
        /\ i < j
        /\ queue[i].opd_type = queue[j].opd_type
        /\ queue[i].patient_id # queue[j].patient_id
        /\ queue[i].status = "PENDING"
        /\ queue[j].status = "REFERRED"
        /\ queue[i].position < queue[j].position

C6_OneEntryPerDepartment ==
    \A i, j \in DOMAIN queue :
        (queue[i].opd_type = queue[j].opd_type /\ queue[i].patient_id = queue[j].patient_id)
            => i = j

SameDayBefore(pid) ==
    {j \in 1..pid : patients[j].token_number.date = patients[pid].token_number.date}

\* C7: the tokens of one day carry the suffixes 0001, 0002, ... in registration
\* order, and the first token of a day is 0001 whatever was issued before.
C7_DailyTokenSequence ==
    \A pid \in DOMAIN patients :
        LET suffix == patients[pid].token_number.suffix
        IN /\ \A k \in DOMAIN suffix : suffix[k] \in 0..9
           /\ ParseInt(suffix) = Cardinality(SameDayBefore(pid))
           /\ (SameDayBefore(pid) = {pid}) => suffix = <<0, 0, 0, 1>>
           /\ \A j \in SameDayBefore(pid) \ {pid} :
                 ParseInt(patients[j].token_number.suffix) < ParseInt(suffix)

\* A registration on a later day restarted the suffix at 0001.
C7_Witness ==
    \E i, j \in DOMAIN patients :
        /\ i < j
        /\ patients[i].token_number.date < patients[j].token_number.date
        /\ patients[j].token_number.suffix = <<0, 0, 0, 1>>
        /\ response.op = "register"

\* C8: no two patients carry the same token_number, also when register calls
\* of different sessions interleave.
C8_TokensUnique ==
    \A i, j \in DOMAIN patients :
        patients[i].token_number = patients[j].token_number => i = j

\* C9: no two Queue rows of one department hold the same position, also when
\* allocate and refer calls of different sessions interleave.
C9_PositionsUnique ==
    \A i, j \in DOMAIN queue :
        (queue[i].opd_type = queue[j].opd_type /\ queue[i].position = queue[j].position)
            => i = j

\* C10: the committed tables never show part of an operation: a patient row
\* comes with its registration PatientFlow row, and an allocation (the
\* patient's allocated_opd and room) with its allocation PatientFlow row.
C10_OperationsAtomic ==
    \A pid \in DOMAIN patients :
        /\ \E i \in DOMAIN flow :
              flow[i] = FlowEntry(pid, None, "registration", "PENDING", None)
        /\ patients[pid].allocated_opd # None =>
              \E i \in DOMAIN flow :
                  flow[i] = AllocateFlow(pid, patients[pid].allocated_opd)

Mutating == {"allocate", "status", "refer", "endvisit"}

\* C11: allocate, refer, setStatus or endVisit called with a patient id that
\* does not exist answers 404 and leaves the Patient, Queue and PatientFlow
\* tables as they were, with no broadcast requested.
C11_NotFoundChangesNothing ==
    [][(/\ response' # response
        /\ response'.op \in Mutating
        /\ response'.patient_id \notin DOMAIN patients)
          => /\ response'.code = 404
             /\ patients' = patients
             /\ queue' = queue
             /\ flow' = flow
             /\ pushes' = {}]_vars

\* A call for an unknown patient was refused while the tables hold a patient
\* and a queue entry.
C11_Witness ==
    /\ response.code = 404
    /\ response.op \in Mutating
    /\ response.patient_id \notin DOMAIN patients
    /\ patients # <<>>
    /\ queue # <<>>
    /\ pushes = {}

\* C12: every successful register, allocate, setStatus, refer and endVisit
\* appends exactly one PatientFlow row, for its patient, and no step changes
\* or removes a row already in the log.
C12_FlowAppendOnly ==
    [][/\ Len(flow') >= Len(flow)
       /\ SubSeq(flow', 1, Len(flow)) = flow
       /\ (response'.code = 200 /\ clock' = clock + 1 /\ today' = today)
            => /\ Len(flow') = Len(flow) + 1
               /\ flow'[Len(flow')].patient_id = response'.patient_id
       /\ ~(response'.code = 200 /\ clock' = clock + 1 /\ today' = today)
            => flow' = flow]_vars

\* The log holds the rows of a registration, an allocation, a referral and a
\* completion, in that order.
C12_Witness ==
    /\ Len(flow) = 4
    /\ flow[1].to_room = "registration"
    /\ flow[2].from_room = "registration"
    /\ flow[3].status = "REFERRED"
    /\ flow[3].to_room # None
    /\ flow[4].to_room = "completed"

Rows(q, d) == {e \in SeqToSet(q) : e.opd_type = d}

\* C13: a call that commits requests a queue broadcast for every department
\* whose Queue rows it added, removed or changed.
C13_PushForEveryChangedQueue ==
    [][(response'.code = 200 /\ clock' = clock + 1 /\ today' = today)
          => \A d \in OPDType :
                Rows(queue', d) # Rows(queue, d) => QueuePush(d) \in pushes']_vars

ListedIds(from, to) ==
    {r.id : r \in SeqToSet(list_referred_patients(patients, from, to))}

ListedInOrder(from, to) ==
    LET rows == list_referred_patients(patients, from, to)
    IN /\ Len(rows) = Cardinality(ListedIds(from, to))
       /\ \A k, l \in DOMAIN rows :
             k < l => rows[k].registration_time <= rows[l].registration_time
       /\ \A k \in DOMAIN rows :
             /\ rows[k].registration_time = patients[rows[k].id].registration_time
             /\ rows[k].from_opd = patients[rows[k].id].referred_from
             /\ rows[k].to_opd = patients[rows[k].id].referred_to

ListedAfterRefer ==
    (response.op = "refer" /\ response.code = 200)
        => response.patient_id \in ListedIds(None, response.opd)

\* C14 (as stated): listReferred(from, to) returns exactly the REFERRED
\* patients whose referred_from is `from` (when given) and whose referred_to
\* is `to` (when given), oldest registration first, and lists p after
\* refer(p, to).
C14_ListReferredFiltersGiven ==
    /\ \A from, to \in OpdQueries :
          /\ ListedIds(from, to) =
                {i \in DOMAIN patients :
                    /\ patients[i].current_status = "REFERRED"
                    /\ from # None => patients[i].referred_from = from
                    /\ to # None => patients[i].referred_to = to}
          /\ ListedInOrder(from, to)
    /\ ListedAfterRefer

\* C14 (amended): the same, with a filter applied only when its value names a
\* department; any other value is ignored.
C14_ListReferredFiltersDepartments ==
    /\ \A from, to \in OpdQueries :
          /\ ListedIds(from, to) =
                {i \in DOMAIN patients :
                    /\ patients[i].current_status = "REFERRED"
                    /\ from \in OPDType => patients[i].referred_from = from
                    /\ to \in OPDType => patients[i].referred_to = to}
          /\ ListedInOrder(from, to)
    /\ ListedAfterRefer

\* Two patients were referred to different departments: the unfiltered list
\* holds both, oldest first, and the list of one department holds one.
C14_Witness ==
    /\ response.op = "refer"
    /\ response.code = 200
    /\ Len(list_referred_patients(patients, None, None)) = 2
    /\ list_referred_patients(patients, None, None)[1].id = 1
    /\ ListedIds(None, response.opd) = {response.patient_id}
    /\ ListedIds("lab", None) = {1, 2}

\* C15: once is_dilated is set, no step clears it or changes dilation_time.
C15_DilationSetOnce ==
    [][\A pid \in DOMAIN patients :
          patients[pid].is_dilated =>
              /\ patients'[pid].is_dilated
              /\ patients'[pid].dilation_time = patients[pid].dilation_time]_vars

\* C16: setStatus(p, COMPLETED) removes the Queue rows of (p.allocated_opd, p)
\* and nothing else: every other row stays as it was, and p keeps its
\* allocated_opd, current_room, referred_from and referred_to.
C16_CompletedRemovesAllocatedEntryOnly ==
    [][(Called("status") /\ patients'[response'.patient_id].current_status = "COMPLETED") =>
        LET pid == response'.patient_id
            p == patients[pid]
            kept == {i \in DOMAIN queue :
                        ~(queue[i].patient_id = pid /\ queue[i].opd_type = p.allocated_opd)}
        IN /\ Len(queue') = Cardinality(kept)
           /\ \A i \in kept : \E j \in DOMAIN queue' : queue'[j] = queue[i]
           /\ \A j \in DOMAIN queue' : \E i \in kept : queue'[j] = queue[i]
           /\ patients'[pid].allocated_opd = p.allocated_opd
           /\ patients'[pid].current_room = p.current_room
           /\ patients'[pid].referred_from = p.referred_from
           /\ patients'[pid].referred_to = p.referred_to
           /\ \A o \in DOMAIN patients : o # pid => patients'[o] = patients[o]]_vars

\* A referred patient was completed through setStatus: the entry in the
\* allocated department is gone, the entry in the other department is left.
C16_Witness ==
    /\ response.op = "status"
    /\ response.code = 200
    /\ LET p == patients[response.patient_id]
       IN /\ p.current_status = "COMPLETED"
          /\ p.allocated_opd # None
          /\ p.referred_to # None
          /\ Entries(queue, response.patient_id, p.allocated_opd) = {}
          /\ \E e \in SeqToSet(queue) :
                e.patient_id = response.patient_id /\ e.status = "REFERRED"

Ended(pid) ==
    \E i \in DOMAIN flow : flow[i].patient_id = pid /\ flow[i].to_room = "completed"

\* C18: once endVisit(p) has succeeded, no step moves p.current_status away
\* from COMPLETED, fills allocated_opd, current_room, referred_from or
\* referred_to again, or leaves a Queue row for p.
C18_EndVisitTerminal ==
    [][\A pid \in DOMAIN patients :
          Ended(pid) =>
              /\ patients'[pid].current_status = "COMPLETED"
              /\ patients'[pid].allocated_opd = None
              /\ patients'[pid].current_room = None
              /\ patients'[pid].referred_from = None
              /\ patients'[pid].referred_to = None
              /\ \A e \in SeqToSet(queue') : e.patient_id # pid]_vars

\* C19 (as stated): in every reachable state every Queue row of
\* (p.allocated_opd, p) carries p.current_status.
C19_EntryMirrorsStatus ==
    \A pid \in DOMAIN patients :
        \A e \in Entries(queue, pid, patients[pid].allocated_opd) :
            e.status = patients[pid].current_status

\* C19 (amended): right after a successful setStatus(p, s) or refer(p, to),
\* when p holds a Queue row in p.allocated_opd, a row of (p.allocated_opd, p)
\* carries p.current_status.
C19_EntryMirrorsAfterUpdate ==
    [][(Called("status") \/ Called("refer")) =>
        LET pid == response'.patient_id
            p == patients'[pid]
        IN Entries(queue', pid, p.allocated_opd) # {} =>
              \E e \in Entries(queue', pid, p.allocated_opd) :
                  e.status = p.current_status]_vars

\* A status update has just been copied to the row of the allocated department.
C19_Witness ==
    /\ response.op = "status"
    /\ response.code = 200
    /\ LET p == patients[response.patient_id]
       IN /\ p.current_status = "DILATED"
          /\ \E e \in Entries(queue, response.patient_id, p.allocated_opd) :
                e.status = "DILATED" /\ e.updated_at = clock

\* C20 (as stated): in every reachable state every patient whose
\* current_status is REFERRED has referred_to set and holds a Queue row with
\* status REFERRED in that department.
C20_ReferredHasDestination ==
    \A pid \in DOMAIN patients :
        patients[pid].current_status = "REFERRED" =>
            /\ patients[pid].referred_to # None
            /\ \E e \in Entries(queue, pid, patients[pid].referred_to) :
                  e.status = "REFERRED"

\* C20 (amended): right after a successful refer(p, to), p is REFERRED,
\* p.referred_to is `to`, p holds a Queue row with status REFERRED in `to`,
\* and listReferred(to_department = to) returns p with that destination.
C20_ReferSetsDestination ==
    [][Called("refer") =>
        LET pid == response'.patient_id
            p == patients'[pid]
        IN /\ p.current_status = "REFERRED"
           /\ p.referred_to = response'.opd
           /\ \E e \in Entries(queue', pid, p.referred_to) : e.status = "REFERRED"
           /\ \E i \in DOMAIN list_referred_patients(patients', None, p.referred_to) :
                 /\ list_referred_patients(patients', None, p.referred_to)[i].id = pid
                 /\ list_referred_patients(patients', None, p.referred_to)[i].to_opd
                        = response'.opd]_vars

\* refer found the patient already queued in the destination, under an earlier
\* allocation, and marked that row.
C20_Witness ==
    /\ response.op = "refer"
    /\ response.code = 200
    /\ LET pid == response.patient_id
           p == patients[pid]
       IN /\ p.current_status = "REFERRED"
          /\ p.allocated_opd \notin {None, p.referred_to}
          /\ \E e \in Entries(queue, pid, p.referred_to) :
                /\ e.status = "REFERRED"
                /\ \E f \in Entries(queue, pid, p.allocated_opd) : f.id > e.id
====
